---- MODULE Spec2Model ----
(***************************************************************************)
(* Model of src/mavfast_remote_api.py: the Flask service that wraps the    *)
(* Brighton Best automation.  One module-level RemoteBrightonAutomation    *)
(* (automation_handler) is shared by all requests; app.run serves each     *)
(* request on a thread of its own, so the handler's attributes             *)
(* (self.driver, self.sheets_client) are shared state and the steps of     *)
(* two requests may interleave.                                            *)
(*                                                                         *)
(* Money is kept in units of 1/10000 dollar, so that the mock unit price   *)
(* 0.5529 and the 20.0 freight surcharge are integers; the rounding of     *)
(* IEEE doubles is not modelled.  dallas_percentage is kept as the exact   *)
(* fraction num/den.  Timestamps and messages are opaque tokens.           *)
(***************************************************************************)
EXTENDS Integers, Sequences, FiniteSets, TLC

\* ------------------------------------------------------------------ bounds
MaxRequests == 2
MaxParts == 2

\* ------------------------------------------------------- program constants
\* unit_price = 0.5529, in 1/10000 dollar
UnitPrice == 5529
\* 20.0 dollars per non-Dallas item, in 1/10000 dollar
NonDallasFreight == 200000
\* quantity of the canned part of test_quote_data
TestQuantity == 225

Requests == 1..MaxRequests
Quantities == {1, 2}
PartNumbers == {"455432"}

\* --------------------------------------------------------------- JSON values
\* A JSON value is a record with a type tag.  A dict carries the set of its
\* keys; a key that is absent holds a placeholder that is never read.
JNull == [type |-> "null"]
JStr == [type |-> "str"]
JList == [type |-> "list"]
EmptyDict == [type |-> "dict", keys |-> {}]

Part(pn, q) == [part_number |-> pn, quantity |-> q]
Parts == {Part(pn, q) : pn \in PartNumbers, q \in Quantities}
PartLists == UNION {[1..n -> Parts] : n \in 1..MaxParts}

QuoteData(keys, parts) ==
    [type |-> "dict", keys |-> keys, quote_id |-> "MF-1", parts_requested |-> parts]

QuoteDatas ==
    {QuoteData({"quote_id", "parts_requested"}, ps) : ps \in PartLists}
    \cup {QuoteData({"quote_id", "parts_requested"}, <<>>),
          QuoteData({"quote_id"}, <<>>),
          QuoteData({"parts_requested"}, <<Part("455432", 1)>>)}

Body(keys, qd) == [type |-> "dict", keys |-> keys, quote_data |-> qd]

\* The request bodies request.get_json() can return: null, a non-empty array,
\* {}, an object without quote_data, and objects whose quote_data is null, a
\* string, {} or a quote.
Bodies ==
    {JNull, JList, EmptyDict, Body({"other"}, JNull)}
    \cup {Body({"quote_data"}, qd) : qd \in {JNull, JStr, EmptyDict} \cup QuoteDatas}

test_quote_data ==
    [type |-> "dict", keys |-> {"quote_id", "parts_requested"},
     quote_id |-> "MF-TEST-20250831-123456",
     parts_requested |-> <<Part("455432", TestQuantity)>>]

\* Python truthiness of a JSON value.
Truthy(v) ==
    CASE v.type = "null" -> FALSE
      [] v.type = "dict" -> v.keys # {}
      [] OTHER -> TRUE

\* quote_data.get('quote_id', 'UNKNOWN')
QuoteIdOf(qd) == IF "quote_id" \in qd.keys THEN qd.quote_id ELSE "UNKNOWN"

\* not quote_data.get('parts_requested')
NoParts_KeyOnly(qd) == "parts_requested" \notin qd.keys
NoParts(qd) == "parts_requested" \notin qd.keys \/ Len(qd.parts_requested) = 0

\* ------------------------------------------------------ generate_mock_results
\* One priced part, as appended to pricing_data.
PricedPart(part) ==
    [part_number |-> part.part_number,
     quantity |-> part.quantity,
     unit_price |-> UnitPrice,
     total_price |-> part.quantity * UnitPrice,
     description |-> <<"Mock description for", part.part_number>>,
     availability |-> "In Stock",
     warehouse_location |-> "DALLAS",
     is_dallas_stock |-> TRUE]

\* pricing_data after the loop over parts.
PricingData(parts) == [i \in 1..Len(parts) |-> PricedPart(parts[i])]

\* total_material_cost after the loop: the running sum over the parts, in order.
RECURSIVE MaterialCostFrom(_, _, _)
MaterialCostFrom(parts, i, acc) ==
    IF i > Len(parts) THEN acc
    ELSE MaterialCostFrom(parts, i + 1, acc + parts[i].quantity * UnitPrice)

MaterialCost_SkipsFirst(parts) == MaterialCostFrom(parts, 2, 0)
MaterialCost(parts) == MaterialCostFrom(parts, 1, 0)

\* sum(20.0 if not item['is_dallas_stock'] else 0.0 for item in pricing_data)
RECURSIVE FreightFrom(_, _, _)
FreightFrom(pricing_data, i, acc) ==
    IF i > Len(pricing_data) THEN acc
    ELSE FreightFrom(pricing_data, i + 1,
             acc + (IF ~pricing_data[i].is_dallas_stock THEN NonDallasFreight ELSE 0))

RECURSIVE FreightFrom_Flipped(_, _, _)
FreightFrom_Flipped(pricing_data, i, acc) ==
    IF i > Len(pricing_data) THEN acc
    ELSE FreightFrom_Flipped(pricing_data, i + 1,
             acc + (IF pricing_data[i].is_dallas_stock THEN NonDallasFreight ELSE 0))

TotalFreight_Flipped(pricing_data) == FreightFrom_Flipped(pricing_data, 1, 0)
TotalFreight(pricing_data) == FreightFrom(pricing_data, 1, 0)

\* sum(1 for item in pricing_data if item['is_dallas_stock'])
RECURSIVE DallasFrom(_, _, _)
DallasFrom(pricing_data, i, acc) ==
    IF i > Len(pricing_data) THEN acc
    ELSE DallasFrom(pricing_data, i + 1,
             acc + (IF pricing_data[i].is_dallas_stock THEN 1 ELSE 0))

DallasItems(pricing_data) == DallasFrom(pricing_data, 1, 0)

\* (dallas_items / len(parts)) * 100, as the fraction num/den
DallasPercentage_NoScale(dallas_items, n) == [num |-> dallas_items, den |-> n]
DallasPercentage(dallas_items, n) == [num |-> dallas_items * 100, den |-> n]

\* total_material_cost + total_freight
TotalQuoteValue_Doubled(material, freight) == material + material
TotalQuoteValue(material, freight) == material + freight

\* The dict generate_mock_results returns for a non-empty parts list.  (For an
\* empty list the division by len(parts) raises; run_brighton_workflow
\* models that.)
generate_mock_results(parts, quote_id) ==
    LET pricing_data == PricingData(parts)
        total_material_cost == MaterialCost(parts)
        total_freight == TotalFreight(pricing_data)
        dallas_items == DallasItems(pricing_data)
    IN  [success |-> TRUE,
         quote_id |-> quote_id,
         parts_processed |-> Len(parts),
         pricing_data |-> pricing_data,
         total_material_cost |-> total_material_cost,
         total_freight |-> total_freight,
         total_quote_value |-> TotalQuoteValue(total_material_cost, total_freight),
         availability_rate |-> 100,
         dallas_items |-> dallas_items,
         dallas_percentage |-> DallasPercentage(dallas_items, Len(parts)),
         processing_notes |-> "Mock processing completed successfully",
         brighton_session_info |-> [login_successful |-> TRUE,
                                    quote_submitted |-> TRUE,
                                    data_extracted |-> TRUE]]

\* ------------------------------------------------ process_brighton_automation
\* The early failure returns (no parts, no driver).
Failure(msg, quote_id) == [success |-> FALSE, error |-> msg, quote_id |-> quote_id]

\* The dict returned by the except clause.
ExceptionResult(quote_id) ==
    [success |-> FALSE,
     error |-> "Brighton Best automation failed",
     quote_id |-> quote_id,
     processing_time_seconds |-> "elapsed",
     processed_at |-> "now"]

\* The processing metadata of result.update({...}).
ProcessingMetadata ==
    [processing_time_seconds |-> "elapsed", processed_at |-> "now", api_version |-> "1.0"]

\* dict.update: the keys of extra are added to (or replace those of) result.
Update(result, extra) ==
    [k \in DOMAIN result \cup DOMAIN extra |->
        IF k \in DOMAIN extra THEN extra[k] ELSE result[k]]

\* ---------------------------------------------------------------------- state
VARIABLES
    driver,          \* automation_handler.driver: 0 is None, else the WebDriver's id
    sheets_client,   \* automation_handler.sheets_client is not None
    browsers,        \* each WebDriver's browser: "absent", "open" or "quit"
    quit_calls,      \* how many times quit() was called on each WebDriver
    pc,              \* where each request is
    route,           \* the route that serves the request: "api" or "test"
    body,            \* what request.get_json() returned
    quote_data,      \* the quote_data passed to process_brighton_automation
    result,          \* the local result of process_brighton_automation
    response,        \* the (body, status) the route returns
    acquired,        \* the WebDriver this request's setup_chrome_driver created (0: none)
    used,            \* the WebDriver this request's workflow drove (0: none)
    quit_target,     \* the WebDriver this request's finally clause quit (0: none)
    mock_invoked,    \* generate_mock_results was called for this request
    sheets_update,   \* "none", or how update_sheets_with_results ended: "ok", "failed"
    update_in_scope  \* the request's own WebDriver was open when the update ran

vars == <<driver, sheets_client, browsers, quit_calls, pc, route, body, quote_data,
          result, response, acquired, used, quit_target, mock_invoked,
          sheets_update, update_in_scope>>

handler == <<driver, sheets_client, browsers, quit_calls>>
history == <<acquired, used, quit_target, mock_invoked, sheets_update, update_in_scope>>

NoResult == [none |-> TRUE]
NoResponse == [status |-> 0]

\* RemoteBrightonAutomation.__init__ has run: no driver; the sheets client
\* exists when the credentials were given and valid.  No request has arrived.
Init ==
    /\ driver = 0
    /\ sheets_client \in BOOLEAN
    /\ browsers = [d \in Requests |-> "absent"]
    /\ quit_calls = [d \in Requests |-> 0]
    /\ pc = [r \in Requests |-> "new"]
    /\ route = [r \in Requests |-> "none"]
    /\ body = [r \in Requests |-> JNull]
    /\ quote_data = [r \in Requests |-> JNull]
    /\ result = [r \in Requests |-> NoResult]
    /\ response = [r \in Requests |-> NoResponse]
    /\ acquired = [r \in Requests |-> 0]
    /\ used = [r \in Requests |-> 0]
    /\ quit_target = [r \in Requests |-> 0]
    /\ mock_invoked = [r \in Requests |-> FALSE]
    /\ sheets_update = [r \in Requests |-> "none"]
    /\ update_in_scope = [r \in Requests |-> FALSE]

\* Requests are numbered in the order they arrive.
Arrives(r) == pc[r] = "new" /\ \A q \in Requests : q < r => pc[q] # "new"

\* jsonify(...), status
Respond(r, status, json) ==
    /\ response' = [response EXCEPT ![r] = [status |-> status, body |-> json]]
    /\ pc' = [pc EXCEPT ![r] = "done"]

ApiError == [success |-> FALSE, error |-> "API error", timestamp |-> "now"]

\* POST /api/brighton-automation, up to the call of process_brighton_automation.
trigger_brighton_automation(r, b) ==
    /\ Arrives(r)
    /\ route' = [route EXCEPT ![r] = "api"]
    /\ body' = [body EXCEPT ![r] = b]
    /\ IF ~Truthy(b)
       THEN /\ Respond(r, 400, [success |-> FALSE, error |-> "No JSON data provided"])
            /\ UNCHANGED quote_data
       ELSE IF b.type # "dict"
       THEN \* request_data.get raises AttributeError
            /\ Respond(r, 500, ApiError)
            /\ UNCHANGED quote_data
       ELSE LET qd == IF "quote_data" \in b.keys THEN b.quote_data ELSE EmptyDict
            IN  IF ~Truthy(qd)
                THEN /\ Respond(r, 400, [success |-> FALSE, error |-> "No quote_data provided"])
                     /\ UNCHANGED quote_data
                ELSE IF qd.type # "dict"
                THEN \* quote_data.get raises AttributeError
                     /\ Respond(r, 500, ApiError)
                     /\ UNCHANGED quote_data
                ELSE /\ quote_data' = [quote_data EXCEPT ![r] = qd]
                     /\ pc' = [pc EXCEPT ![r] = "validate"]
                     /\ UNCHANGED response
    /\ UNCHANGED <<handler, result, history>>

\* POST /api/test, up to the call of process_brighton_automation.
test_endpoint(r) ==
    /\ Arrives(r)
    /\ route' = [route EXCEPT ![r] = "test"]
    /\ quote_data' = [quote_data EXCEPT ![r] = test_quote_data]
    /\ pc' = [pc EXCEPT ![r] = "validate"]
    /\ UNCHANGED <<handler, body, result, response, history>>

\* process_brighton_automation: the validation of the input.
Validate(r) ==
    /\ pc[r] = "validate"
    /\ IF NoParts(quote_data[r])
       THEN /\ result' = [result EXCEPT ![r] =
                   Failure("No parts provided for processing", QuoteIdOf(quote_data[r]))]
            /\ pc' = [pc EXCEPT ![r] = "finally"]
       ELSE /\ pc' = [pc EXCEPT ![r] = "setup"]
            /\ UNCHANGED result
    /\ UNCHANGED <<handler, route, body, quote_data, response, history>>

\* setup_chrome_driver returns True: self.driver is a new WebDriver.
SetupSucceeds(r) ==
    /\ pc[r] = "setup"
    /\ driver' = r
    /\ browsers' = [browsers EXCEPT ![r] = "open"]
    /\ acquired' = [acquired EXCEPT ![r] = r]
    /\ pc' = [pc EXCEPT ![r] = "workflow"]
    /\ UNCHANGED <<sheets_client, quit_calls, route, body, quote_data, result, response,
                   used, quit_target, mock_invoked, sheets_update, update_in_scope>>

\* setup_chrome_driver returns False: webdriver.Chrome raised, self.driver is
\* left as it was.
SetupFails(r) ==
    /\ pc[r] = "setup"
    /\ result' = [result EXCEPT ![r] =
           Failure("Failed to initialize Chrome WebDriver", QuoteIdOf(quote_data[r]))]
    /\ pc' = [pc EXCEPT ![r] = "finally"]
    /\ UNCHANGED <<handler, route, body, quote_data, response, history>>

setup_chrome_driver(r) == SetupSucceeds(r) \/ SetupFails(r)

\* An exception reaches the except clause of process_brighton_automation.
Raise(r) ==
    /\ result' = [result EXCEPT ![r] = ExceptionResult(QuoteIdOf(quote_data[r]))]
    /\ pc' = [pc EXCEPT ![r] = "finally"]

\* run_brighton_workflow raises: quote_data['quote_id'] is missing, or
\* self.driver.get fails (always on a WebDriver that was quit), or
\* generate_mock_results divides by len(parts) = 0.
WorkflowRaises(r) ==
    /\ pc[r] = "workflow"
    /\ Raise(r)
    /\ IF "quote_id" \notin quote_data[r].keys
       THEN UNCHANGED <<used, mock_invoked>>
       ELSE /\ used' = [used EXCEPT ![r] = driver]
            /\ IF Len(quote_data[r].parts_requested) = 0 /\ browsers[driver] = "open"
               THEN mock_invoked' = [mock_invoked EXCEPT ![r] = TRUE]
               ELSE UNCHANGED mock_invoked
    /\ UNCHANGED <<handler, route, body, quote_data, response,
                   acquired, quit_target, sheets_update, update_in_scope>>

\* run_brighton_workflow returns the mock results.
WorkflowReturns(r) ==
    /\ pc[r] = "workflow"
    /\ "quote_id" \in quote_data[r].keys
    /\ browsers[driver] = "open"
    /\ Len(quote_data[r].parts_requested) > 0
    /\ used' = [used EXCEPT ![r] = driver]
    /\ mock_invoked' = [mock_invoked EXCEPT ![r] = TRUE]
    /\ result' = [result EXCEPT ![r] =
           generate_mock_results(quote_data[r].parts_requested, quote_data[r].quote_id)]
    /\ pc' = [pc EXCEPT ![r] = "sheets"]
    /\ UNCHANGED <<handler, route, body, quote_data, response,
                   acquired, quit_target, sheets_update, update_in_scope>>

run_brighton_workflow(r) == WorkflowRaises(r) \/ WorkflowReturns(r)

\* self.sheets_client and result.get('success')
UpdateWanted(r) == sheets_client /\ result[r].success

\* update_sheets_with_results: the update succeeds, or raises and is logged.
\* Then the metadata is added to the result.
update_sheets_with_results(r, outcome) ==
    /\ pc[r] = "sheets"
    /\ UpdateWanted(r)
    /\ sheets_update' = [sheets_update EXCEPT ![r] = outcome]
    /\ update_in_scope' = [update_in_scope EXCEPT ![r] = browsers[acquired[r]] = "open"]
    /\ result' = [result EXCEPT ![r] = Update(result[r], ProcessingMetadata)]
    /\ pc' = [pc EXCEPT ![r] = "finally"]
    /\ UNCHANGED <<handler, route, body, quote_data, response,
                   acquired, used, quit_target, mock_invoked>>

\* No update: only the metadata is added to the result.
SkipSheets(r) ==
    /\ pc[r] = "sheets"
    /\ ~UpdateWanted(r)
    /\ result' = [result EXCEPT ![r] = Update(result[r], ProcessingMetadata)]
    /\ pc' = [pc EXCEPT ![r] = "finally"]
    /\ UNCHANGED <<handler, route, body, quote_data, response, history>>

\* The status the route gives the result of process_brighton_automation.
StatusOf(r) == IF route[r] = "test" \/ result[r].success THEN 200 ELSE 500

\* The finally clause of process_brighton_automation (if self.driver:
\* self.driver.quit()), then the route returns the result.
Finally(r) ==
    /\ pc[r] = "finally"
    /\ IF driver # 0
       THEN /\ browsers' = [browsers EXCEPT ![driver] = "quit"]
            /\ quit_calls' = [quit_calls EXCEPT ![driver] = @ + 1]
            /\ quit_target' = [quit_target EXCEPT ![r] = driver]
       ELSE UNCHANGED <<browsers, quit_calls, quit_target>>
    /\ Respond(r, StatusOf(r), result[r])
    /\ UNCHANGED <<driver, sheets_client, route, body, quote_data, result,
                   acquired, used, mock_invoked, sheets_update, update_in_scope>>

\* The response is sent and the request's locals are gone.
Deliver(r) ==
    /\ pc[r] = "done"
    /\ pc' = [pc EXCEPT ![r] = "closed"]
    /\ route' = [route EXCEPT ![r] = "none"]
    /\ body' = [body EXCEPT ![r] = JNull]
    /\ quote_data' = [quote_data EXCEPT ![r] = JNull]
    /\ result' = [result EXCEPT ![r] = NoResult]
    /\ response' = [response EXCEPT ![r] = NoResponse]
    /\ acquired' = [acquired EXCEPT ![r] = 0]
    /\ used' = [used EXCEPT ![r] = 0]
    /\ quit_target' = [quit_target EXCEPT ![r] = 0]
    /\ mock_invoked' = [mock_invoked EXCEPT ![r] = FALSE]
    /\ sheets_update' = [sheets_update EXCEPT ![r] = "none"]
    /\ update_in_scope' = [update_in_scope EXCEPT ![r] = FALSE]
    /\ UNCHANGED handler

\* A step of request r inside process_brighton_automation.
Process(r) ==
    \/ Validate(r)
    \/ setup_chrome_driver(r)
    \/ run_brighton_workflow(r)
    \/ \E outcome \in {"ok", "failed"} : update_sheets_with_results(r, outcome)
    \/ SkipSheets(r)
    \/ Finally(r)
    \/ Deliver(r)

\* The bodies of the requests that are let to interleave: one priced part, an
\* empty parts list, a missing quote_id, and no JSON.
ThreadedBodies ==
    {JNull,
     Body({"quote_data"}, QuoteData({"quote_id", "parts_requested"}, <<Part("455432", 1)>>)),
     Body({"quote_data"}, QuoteData({"quote_id", "parts_requested"}, <<>>)),
     Body({"quote_data"}, QuoteData({"parts_requested"}, <<Part("455432", 1)>>))}

\* The threaded server of app.run: every request has a thread of its own, and
\* the steps of the requests in progress interleave.
Next ==
    \E r \in Requests :
        \/ \E b \in ThreadedBodies : trigger_brighton_automation(r, b)
        \/ test_endpoint(r)
        \/ Process(r)

Spec == Init /\ [][Next]_vars

\* One request at a time: a request arrives when no other is in progress.
NoneInProgress == \A q \in Requests : pc[q] \in {"new", "closed"}

NextSeq ==
    \E r \in Requests :
        \/ NoneInProgress /\ \E b \in Bodies : trigger_brighton_automation(r, b)
        \/ NoneInProgress /\ test_endpoint(r)
        \/ Process(r)

SpecSeq == Init /\ [][NextSeq]_vars

\* ===================================================================== claims
\* The request went through process_brighton_automation and holds its result.
Processed(r) == pc[r] \in {"finally", "done"} /\ quote_data[r].type = "dict"

\* The request holds a successful quote result.
Succeeded(r) ==
    /\ pc[r] \in {"sheets", "finally", "done"}
    /\ "success" \in DOMAIN result[r]
    /\ result[r].success

ComputedFields == {"pricing_data", "total_material_cost", "total_freight", "total_quote_value"}

\* parts_requested is missing or is an empty list.
PartsMissingOrEmpty(qd) ==
    \/ "parts_requested" \notin qd.keys
    \/ qd.parts_requested = <<>>

\* C1: a quote_data whose parts_requested is missing or empty gets a failure
\* result (success false, an error, the quote_id) with no computed quote
\* field, never reaches the driver setup or the workflow, and
\* generate_mock_results is not invoked for it.
C1_EmptyPartsFail ==
    \A r \in Requests :
        (quote_data[r].type = "dict" /\ PartsMissingOrEmpty(quote_data[r])) =>
            /\ pc[r] \in {"validate", "finally", "done"}
            /\ ~mock_invoked[r]
            /\ acquired[r] = 0
            /\ Processed(r) =>
                  /\ result[r].success = FALSE
                  /\ {"error", "quote_id"} \subseteq DOMAIN result[r]
                  /\ result[r].quote_id = QuoteIdOf(quote_data[r])
                  /\ DOMAIN result[r] \cap ComputedFields = {}
            /\ pc[r] = "done" => response[r].body = result[r]

C1_Witness ==
    \E r \in Requests :
        /\ pc[r] = "done"
        /\ quote_data[r].type = "dict"
        /\ "parts_requested" \in quote_data[r].keys
        /\ quote_data[r].parts_requested = <<>>
        /\ response[r].body.success = FALSE
        /\ response[r].body.error = "No parts provided for processing"

\* The sum of the total_price of the entries of a pricing_data.
RECURSIVE SumTotalPrice(_)
SumTotalPrice(pd) ==
    IF pd = <<>> THEN 0 ELSE pd[1].total_price + SumTotalPrice(Tail(pd))

\* C5: a successful result's total_material_cost is the sum of the
\* total_price of its pricing_data entries, each entry's total_price being
\* quantity x unit_price of the requested part at the same place; one part
\* of quantity 225 gives 124.4025.
C5_MaterialCostIsSum ==
    \A r \in Requests :
        Succeeded(r) =>
            LET parts == quote_data[r].parts_requested
                pd == result[r].pricing_data
            IN  /\ Len(pd) = Len(parts)
                /\ \A i \in 1..Len(pd) :
                      /\ pd[i].part_number = parts[i].part_number
                      /\ pd[i].quantity = parts[i].quantity
                      /\ pd[i].total_price = parts[i].quantity * pd[i].unit_price
                /\ result[r].total_material_cost = SumTotalPrice(pd)
                /\ (Len(parts) = 1 /\ parts[1].quantity = 225) =>
                      result[r].total_material_cost = 1244025

C5_Witness ==
    \E r \in Requests :
        /\ pc[r] = "done"
        /\ Succeeded(r)
        /\ Len(result[r].pricing_data) = 2
        /\ result[r].pricing_data[1].quantity # result[r].pricing_data[2].quantity
        /\ response[r].body.total_material_cost = 3 * UnitPrice

\* The places of the non-Dallas entries of a pricing_data.
NonDallas(pd) == {i \in 1..Len(pd) : ~pd[i].is_dallas_stock}

\* C6: a successful result's total_freight is 20 dollars times the number of
\* pricing_data entries that are not Dallas stock, which is 20 dollars times
\* (parts_processed - dallas_items).
C6_FreightPerNonDallasItem ==
    \A r \in Requests :
        Succeeded(r) =>
            /\ result[r].total_freight =
                   NonDallasFreight * Cardinality(NonDallas(result[r].pricing_data))
            /\ result[r].total_freight =
                   NonDallasFreight * (result[r].parts_processed - result[r].dallas_items)

C6_Witness ==
    \E r \in Requests :
        /\ pc[r] = "done"
        /\ Succeeded(r)
        /\ Len(result[r].pricing_data) = 2
        /\ \A i \in 1..2 : result[r].pricing_data[i].is_dallas_stock
        /\ response[r].body.total_freight = 0

\* C7: every successful result has total_quote_value = total_material_cost +
\* total_freight, before and after the processing metadata is added, and in
\* the response.
C7_QuoteValueIsCostPlusFreight ==
    \A r \in Requests :
        Succeeded(r) =>
            /\ result[r].total_quote_value =
                   result[r].total_material_cost + result[r].total_freight
            /\ pc[r] \in {"finally", "done"} => "api_version" \in DOMAIN result[r]
            /\ pc[r] = "done" =>
                   response[r].body.total_quote_value =
                       response[r].body.total_material_cost + response[r].body.total_freight

C7_Witness ==
    \E r \in Requests :
        /\ pc[r] = "done"
        /\ Succeeded(r)
        /\ "api_version" \in DOMAIN response[r].body
        /\ response[r].body.total_quote_value = 2 * UnitPrice

\* C8: a successful result has dallas_percentage = 100 x dallas_items /
\* parts_processed, parts_processed being the number of requested parts and
\* dallas_items the number of pricing_data entries flagged is_dallas_stock;
\* 0 <= dallas_items <= parts_processed and 0 <= dallas_percentage <= 100.
C8_DallasPercentage ==
    \A r \in Requests :
        Succeeded(r) =>
            LET pd == result[r].pricing_data
                pct == result[r].dallas_percentage
            IN  /\ result[r].parts_processed = Len(quote_data[r].parts_requested)
                /\ result[r].dallas_items = Len(pd) - Cardinality(NonDallas(pd))
                /\ pct.den > 0
                /\ pct.num * result[r].parts_processed = 100 * result[r].dallas_items * pct.den
                /\ 0 <= result[r].dallas_items
                /\ result[r].dallas_items <= result[r].parts_processed
                /\ 0 <= pct.num
                /\ pct.num <= 100 * pct.den

C8_Witness ==
    \E r \in Requests :
        /\ pc[r] = "done"
        /\ Succeeded(r)
        /\ response[r].body.parts_processed = 2
        /\ response[r].body.dallas_items = 2
        /\ response[r].body.dallas_percentage = [num |-> 200, den |-> 2]

\* C2: in every request the driver is acquired before run_brighton_workflow
\* uses one, and a request that acquired a driver has released it (quit)
\* when it returns, whatever the path.
C2_DriverReleasedOnReturn ==
    \A r \in Requests :
        /\ used[r] # 0 => acquired[r] # 0
        /\ (pc[r] = "done" /\ acquired[r] # 0) => browsers[acquired[r]] = "quit"

\* The request has no JSON body, or its body holds no quote_data.
Malformed(b) ==
    \/ ~Truthy(b)
    \/ b.type # "dict"
    \/ "quote_data" \notin b.keys
    \/ ~Truthy(b.quote_data)

\* C3: the response of POST /api/brighton-automation has status 200 exactly
\* when the result has success = true, 400 when the request is malformed (no
\* JSON body, no quote_data), 500 when processing fails; every response that
\* is not 200 carries success = false and an error.
C3_StatusByOutcome ==
    \A r \in Requests :
        (pc[r] = "done" /\ route[r] = "api") =>
            /\ response[r].status \in {200, 400, 500}
            /\ response[r].status = 200 <=> ("success" \in DOMAIN result[r] /\ result[r].success)
            /\ Malformed(body[r]) => response[r].status = 400
            /\ (~Malformed(body[r]) /\ response[r].status # 200) => response[r].status = 500
            /\ response[r].status # 200 =>
                  /\ response[r].body.success = FALSE
                  /\ "error" \in DOMAIN response[r].body

\* C4: interleaved requests use and release only the driver they acquired:
\* no request drives or quits another request's driver, no driver is quit
\* while its request still uses it, and none is left open at the return.
C4_RequestsShareNoDriver ==
    \A r \in Requests :
        /\ used[r] # 0 => used[r] = acquired[r]
        /\ quit_target[r] # 0 => quit_target[r] = acquired[r]
        /\ pc[r] \in {"workflow", "sheets"} => browsers[acquired[r]] = "open"
        /\ (pc[r] = "done" /\ acquired[r] # 0) => quit_calls[acquired[r]] = 1

\* C9: over a sequence of requests every acquired driver is quit exactly
\* once: a request that acquired none calls no quit, and no quit is called
\* on a driver that was quit before.
C9_EachDriverQuitOnce ==
    /\ \A r \in Requests : acquired[r] = 0 => quit_target[r] = 0
    /\ \A d \in Requests : quit_calls[d] <= 1

\* C10: the spreadsheet update is attempted only with a sheets client and a
\* successful result, while the request's driver is still open, and however
\* it ends the request returns the same successful quote result.
C10_SheetsUpdateChangesNothing ==
    \A r \in Requests :
        /\ sheets_update[r] # "none" =>
              /\ sheets_client
              /\ Succeeded(r)
              /\ update_in_scope[r]
        /\ (pc[r] \in {"finally", "done"} /\ Succeeded(r)) =>
              result[r] = Update(generate_mock_results(quote_data[r].parts_requested,
                                                       quote_data[r].quote_id),
                                 ProcessingMetadata)
        /\ (pc[r] = "done" /\ Succeeded(r)) => response[r].body = result[r]

====
